---- MODULE Spec2Model ----
(***************************************************************************)
(* Unrestricted Hartree-Fock SCF with DIIS acceleration, as written in     *)
(* Tutorials/03_Hartree-Fock/3c_unrestricted-hartree-fock.ipynb.           *)
(*                                                                         *)
(* Matrices are nbf x nbf matrices over the integers.  Every ring          *)
(* operation of the notebook (einsum, dot, sums, products) is exact.       *)
(* The Pulay system of diis_xtrap is solved exactly over the rationals     *)
(* (Cramer's rule), so an extrapolated Fock matrix is a matrix of          *)
(* numerators with one positive denominator.  np.linalg.eigh is a LAPACK   *)
(* kernel outside the notebook: it is a choice among the orthonormal       *)
(* integer eigenbases (signed permutations up to sign), which is the exact *)
(* answer whenever the transformed Fock matrix is diagonal.                *)
(*                                                                         *)
(* Energies (SCF_E, E_old, dE, E_nuc) are stored doubled, so that          *)
(* "SCF_E *= 0.5" stays integral; the tolerance is doubled where it is     *)
(* compared.  The memory budget numpy_memory is stored in units of one     *)
(* double (8.e-9 GB), so that "nbf**4 * 8.e-9 > numpy_memory" is           *)
(* nbf^4 > numpy_memory.                                                   *)
(***************************************************************************)
EXTENDS Integers, Sequences, FiniteSets, TLC

VARIABLES
    mol,            \* the molecule and basis handed to Psi4: what wfn and mints return
    numpy_memory,   \* option: memory budget for the ERI tensor
    MAXITER,        \* option: maximum SCF iterations
    E_conv,         \* option: energy convergence criterion
    D_conv,         \* option: residual convergence criterion
    pc,             \* position in the notebook
    allocated,      \* the tensors built so far
    Ca, Cb,         \* orbital coefficients
    Da, Db,         \* density matrices
    Fa, Fb,         \* Fock matrices (rational once extrapolated)
    diis_r_a, diis_r_b, \* DIIS residuals of the current iteration
    F_list_a, F_list_b, \* trial vector lists
    R_list_a, R_list_b, \* residual vector lists
    SCF_E, E_old, dE,   \* energies (doubled)
    scf_iter,       \* loop variable
    B_dims,         \* dimensions of the B matrices built by diis_xtrap in this iteration
    report          \* what the post-iteration cell printed

vars == <<mol, numpy_memory, MAXITER, E_conv, D_conv, pc, allocated, Ca, Cb, Da, Db,
          Fa, Fb, diis_r_a, diis_r_b, F_list_a, F_list_b, R_list_a, R_list_b,
          SCF_E, E_old, dE, scf_iter, B_dims, report>>

----------------------------------------------------------------------------
(* Bounds of the model *)

\* largest MAXITER option explored
MaxIter == 3
\* largest tolerance explored (E_conv, D_conv range over 0..MaxTol)
MaxTol == 2

----------------------------------------------------------------------------
(* Integer helpers *)

Abs(x) == IF x < 0 THEN -x ELSE x

Min(x, y) == IF x < y THEN x ELSE y

Max(x, y) == IF x < y THEN y ELSE x

\* the element of a one-element set
Only(S) == CHOOSE x \in S : TRUE

RECURSIVE Gcd(_, _)
Gcd(x, y) == IF y = 0 THEN Abs(x) ELSE Gcd(y, x % Abs(y))

RECURSIVE SumOver(_, _)
\* sum of f[x] over x in S
SumOver(f, S) ==
    IF S = {} THEN 0
    ELSE LET x == CHOOSE y \in S : TRUE IN f[x] + SumOver(f, S \ {x})

RECURSIVE GcdOver(_, _)
GcdOver(f, S) ==
    IF S = {} THEN 0
    ELSE LET x == CHOOSE y \in S : TRUE IN Gcd(f[x], GcdOver(f, S \ {x}))

----------------------------------------------------------------------------
(* Matrices: functions on Idx(n) \X Idx(n) *)

Idx(n) == 1..n

Pairs(n) == Idx(n) \X Idx(n)

Identity(n) == [ij \in Pairs(n) |-> IF ij[1] = ij[2] THEN 1 ELSE 0]

\* the matrix operations bind their arguments once: x, y are X, Y evaluated

MatAdd(X, Y) == Only({[ij \in DOMAIN x |-> x[ij] + y[ij]] : x \in {X}, y \in {Y}})

MatSub(X, Y) == Only({[ij \in DOMAIN x |-> x[ij] - y[ij]] : x \in {X}, y \in {Y}})

MatScale(c, X) == Only({[ij \in DOMAIN x |-> c * x[ij]] : x \in {X}})

\* sum of f[1] .. f[n]
RECURSIVE SumTo(_, _)
SumTo(f, n) == IF n = 0 THEN 0 ELSE f[n] + SumTo(f, n - 1)

\* X.dot(Y)
MatMul(n, X, Y) ==
    Only({[ij \in Pairs(n) |-> SumTo([k \in Idx(n) |-> x[ij[1], k] * y[k, ij[2]]], n)] :
          x \in {X}, y \in {Y}})

\* np.einsum('ij,ij->', X, Y)
Contract(X, Y) ==
    Only({SumOver([ij \in DOMAIN x |-> x[ij] * y[ij]], DOMAIN x) : x \in {X}, y \in {Y}})

IsDiagonal(n, X) == \A ij \in Pairs(n) : ij[1] # ij[2] => X[ij] = 0

\* a rational matrix num/den, den > 0, in lowest terms
Rational(num, den) ==
    LET s == IF den < 0 THEN -1 ELSE 1
        g == Gcd(den, GcdOver(num, DOMAIN num))
    IN  [num |-> [ij \in DOMAIN num |-> (s * num[ij]) \div g], den |-> (s * den) \div g]

Whole(X) == [num |-> X, den |-> 1]

\* X + Y of rational matrices
RatAdd(X, Y) ==
    Rational([ij \in DOMAIN X.num |-> X.num[ij] * Y.den + Y.num[ij] * X.den], X.den * Y.den)

\* (cnum/cden) * X of a rational matrix
RatScale(cnum, cden, X) == Rational(MatScale(cnum, X.num), cden * X.den)

----------------------------------------------------------------------------
(* What Psi4 hands to the notebook: basis size, occupations, integrals *)

\* mints.ao_overlap(): the basis is orthonormal
ao_overlap(m) == Identity(m.nbf)

\* mints.ao_eri(): (pq|rs) with the 8-fold permutational symmetry; U = (pp|pp),
\* V = (pp|rr), X = (pr|pr), W = (pp|pr), every other class 0
ao_eri(m, p, q, r, s) ==
    LET c == Cardinality({p, q, r, s})
    IN  IF c = 1 THEN m.U
        ELSE IF c > 2 THEN 0
        ELSE IF p = q /\ r = s THEN m.V
        ELSE IF p # q /\ r # s THEN m.X
        ELSE m.W

\* A = mints.ao_overlap(); A.power(-0.5, 1.e-16): S^(-1/2) of the identity
ao_orthogonalizer(m) == Identity(m.nbf)

----------------------------------------------------------------------------
(* diag_F *)

\* the injective sequences of length n over 1..n
EigenOrders(n) == {f \in [Idx(n) -> Idx(n)] : \A i, j \in Idx(n) : f[i] = f[j] => i = j}

\* np.linalg.eigh(F_p): the eigenvector matrices it may return.  For a diagonal F_p
\* these are the unit vectors in ascending order of their eigenvalues (any order
\* among equal ones).  The eigenvectors of any other F_p are not integral; eigh
\* then returns some orthonormal frame, and the model draws it from the frames of
\* unit vectors: column i is e_(f[i]).
eigh(n, F_p) ==
    {[ij \in Pairs(n) |-> IF f[ij[2]] = ij[1] THEN 1 ELSE 0] :
        f \in {g \in EigenOrders(n) :
                 IsDiagonal(n, F_p) =>
                    \A i, j \in Idx(n) : i < j => F_p[g[i], g[i]] <= F_p[g[j], g[j]]}}

\* the number of columns of C[:, :norb] for a matrix of n columns
SliceStop(norb, n) == IF norb >= 0 THEN Min(norb, n) ELSE Max(n + norb, 0)

\* np.einsum('pi,qi->pq', C_occ, C_occ) with C_occ = C[:, :norb]
Density(n, C, norb) ==
    [pq \in Pairs(n) |->
        SumOver([i \in Idx(SliceStop(norb, n)) |-> C[pq[1], i] * C[pq[2], i]],
                Idx(SliceStop(norb, n)))]

\* diag_F(F, norb) with the eigenvectors C_p that eigh returned: (C, D)
diag_F_with(n, A, C_p, norb) ==
    LET C == MatMul(n, A, C_p)
    IN  [C |-> C, D |-> Density(n, C, norb)]

\* diag_F(F, norb): the set of (C, D) it may return; A is the global orthogonalizer
diag_F(n, A, F, norb) ==
    LET F_p == MatMul(n, MatMul(n, A, F.num), A)
    IN  {diag_F_with(n, A, C_p, norb) : C_p \in eigh(n, F_p)}

----------------------------------------------------------------------------
(* diis_xtrap *)

\* the sequence cols without its j-th entry
Without(cols, j) == [i \in 1..(Len(cols) - 1) |-> IF i < j THEN cols[i] ELSE cols[i + 1]]

RECURSIVE Minor(_, _, _)
\* determinant of the rows r..  and the columns cols of B, expanded along row r
Minor(B, r, cols) ==
    IF Len(cols) = 0 THEN 1
    ELSE SumOver([j \in 1..Len(cols) |->
                    (IF j % 2 = 1 THEN 1 ELSE -1) * B[r, cols[j]]
                        * Minor(B, r + 1, Without(cols, j))],
                 1..Len(cols))

Det(dim, B) == Minor(B, 1, [i \in 1..dim |-> i])

\* the B matrix of the Pulay equation
PulayB(B_dim, DIIS_RESID) ==
    [ij \in Pairs(B_dim) |->
        IF ij[1] = B_dim /\ ij[2] = B_dim THEN 0
        ELSE IF ij[1] = B_dim \/ ij[2] = B_dim THEN -1
        ELSE Contract(DIIS_RESID[ij[1]], DIIS_RESID[ij[2]])]

\* the right-hand side with the sign of its last entry lost
PulayRhs_positive(B_dim) == [i \in Idx(B_dim) |-> IF i = B_dim THEN 1 ELSE 0]

\* the right-hand side of the Pulay equation
PulayRhs(B_dim) == [i \in Idx(B_dim) |-> IF i = B_dim THEN -1 ELSE 0]

\* B with column x replaced by rhs
ReplaceColumn(B_dim, B, x, rhs) ==
    [ij \in Pairs(B_dim) |-> IF ij[2] = x THEN rhs[ij[1]] ELSE B[ij]]

\* np.linalg.solve(B, rhs): LinAlgError for a singular B, else the coefficients
\* coeff[x] = num[x] / den (Cramer's rule)
linalg_solve(B_dim, B, rhs) ==
    Only({IF d = 0 THEN [raised |-> TRUE, num |-> <<>>, den |-> 0]
          ELSE [raised |-> FALSE,
                num |-> [x \in Idx(B_dim) |-> Det(B_dim, ReplaceColumn(B_dim, B, x, rhs))],
                den |-> d] :
          d \in {Det(B_dim, B)}})

RECURSIVE Accumulate(_, _, _, _)
\* F_DIIS after the passes x, x+1, .. of "F_DIIS += coeff[x] * F_list[x]"
Accumulate(F_DIIS, coeff, F_list, x) ==
    IF x > Len(coeff.num) - 1 THEN F_DIIS
    ELSE Accumulate(RatAdd(F_DIIS, RatScale(coeff.num[x], coeff.den, F_list[x])),
                    coeff, F_list, x + 1)

\* diis_xtrap(F_list, DIIS_RESID): the DIIS solution vector, or the LinAlgError of solve
diis_xtrap(F_list, DIIS_RESID) ==
    LET B_dim == Len(F_list) + 1
        B     == PulayB(B_dim, DIIS_RESID)
    IN  Only({IF coeff.raised
              THEN [raised |-> TRUE, B_dim |-> B_dim, F_DIIS |-> <<>>]
              ELSE [raised |-> FALSE, B_dim |-> B_dim,
                    F_DIIS |-> Accumulate(Whole([ij \in DOMAIN F_list[1].num |-> 0]),
                                          coeff, F_list, 1)] :
              coeff \in {linalg_solve(B_dim, B, PulayRhs(B_dim))}})

----------------------------------------------------------------------------
(* The body of the SCF iteration *)

\* an append that keeps a window of the two newest entries
append_windowed(list, x) ==
    IF Len(list) < 2 THEN Append(list, x) ELSE Append(Tail(list), x)

\* list.append(x)
append(list, x) == Append(list, x)

\* np.einsum('pqrs,rs->pq', I, D)
Coulomb(m, D) ==
    [pq \in Pairs(m.nbf) |->
        SumOver([rs \in Pairs(m.nbf) |-> ao_eri(m, pq[1], pq[2], rs[1], rs[2]) * D[rs]],
                Pairs(m.nbf))]

\* np.einsum('prqs,rs->pq', I, D)
Exchange(m, D) ==
    [pq \in Pairs(m.nbf) |->
        SumOver([rs \in Pairs(m.nbf) |-> ao_eri(m, pq[1], rs[1], pq[2], rs[2]) * D[rs]],
                Pairs(m.nbf))]

\* F = H + (Ja + Jb) - K for the spin whose density is D; Dother is the other spin's
Fock(m, D, Dother) ==
    MatSub(MatAdd(m.H, MatAdd(Coulomb(m, D), Coulomb(m, Dother))), Exchange(m, D))

\* A.dot(F.dot(D).dot(S) - S.dot(D).dot(F)).dot(A)
Residual(m, F, D) ==
    LET n == m.nbf
        S == ao_overlap(m)
        A == ao_orthogonalizer(m)
        FDS == MatMul(n, MatMul(n, F, D), S)
        SDF == MatMul(n, MatMul(n, S, D), F)
    IN  MatMul(n, MatMul(n, A, MatSub(FDS, SDF)), A)

\* the UHF energy, doubled: (Da + Db).H + Da.Fa + Db.Fb + 2 E_nuc
Energy(m, DA, DB, FA, FB) ==
    Contract(MatAdd(DA, DB), m.H) + Contract(DA, FA) + Contract(DB, FB) + 2 * m.E_nuc

\* dRMS < tol for dRMS = 0.5 * (mean(ra**2)**0.5 + mean(rb**2)**0.5), decided exactly:
\* sqrt(x) + sqrt(y) < T with x, y the sums of squares and T = 2 * tol * nbf
dRMS_below(n, ra, rb, tol) ==
    LET x == Contract(ra, ra)
        y == Contract(rb, rb)
        T == 2 * tol * n
        Z == T * T - x - y
    IN  T > 0 /\ Z > 0 /\ 4 * x * y < Z * Z

\* the convergence check with "or" in place of "and"
ConvergenceTest_either(n, de, ra, rb, etol, dtol) ==
    Abs(de) < 2 * etol \/ dRMS_below(n, ra, rb, dtol)

\* (abs(dE) < E_conv) and (dRMS < D_conv); de is doubled
ConvergenceTest(n, de, ra, rb, etol, dtol) ==
    Abs(de) < 2 * etol /\ dRMS_below(n, ra, rb, dtol)

\* the memory check with the comparison inverted
MemoryExceeded_inverted(n, budget) == n * n * n * n < budget

\* I_size > numpy_memory for I_size = (nbf**4) * 8.e-9
MemoryExceeded(n, budget) == n * n * n * n > budget

\* extrapolation already in the first iteration
UseDIIS_from_first(iter) == iter >= 1

\* "if scf_iter >= 2": whether this iteration extrapolates
UseDIIS(iter) == iter >= 2

\* "if (scf_iter == MAXITER)"
LimitReached(iter, maxiter) == iter = maxiter

----------------------------------------------------------------------------
(* Inputs *)

\* a name not yet bound
Unset == <<>>

\* core Hamiltonians: level spacing gap on the diagonal, hopping hop off it
Hcore(n, gap, hop) == [pq \in Pairs(n) |-> IF pq[1] = pq[2] THEN (pq[1] - 1) * gap ELSE hop]

\* the two-electron integrals explored: (U, V, X, W)
EriClasses == {<<0, 0, 0, 0>>, <<2, 0, 0, 0>>, <<2, 1, 0, 1>>}

\* the numbers of basis functions explored
BasisSizes == {1, 2}

\* occupations 0 <= nbeta <= nalpha <= nbf + 1; nbf + 1 is out of range
Molecules ==
    {[nbf |-> n, nalpha |-> na, nbeta |-> nb, H |-> Hcore(n, gh[1], gh[2]),
      U |-> e[1], V |-> e[2], X |-> e[3], W |-> e[4], E_nuc |-> 1] :
        n \in BasisSizes, na \in 0..3, nb \in 0..3,
        gh \in {0, 1} \X {-1, 0}, e \in EriClasses}

\* memory budgets: room for the tensor of each basis size
MemoryBudgets == {n * n * n * n : n \in BasisSizes}

Init ==
    /\ mol \in {m \in Molecules : m.nbeta <= m.nalpha /\ m.nalpha <= m.nbf + 1}
    /\ numpy_memory \in MemoryBudgets
    /\ MAXITER \in 0..MaxIter
    /\ E_conv \in 0..MaxTol
    /\ D_conv \in 0..MaxTol
    /\ pc = "static"
    /\ allocated = {}
    /\ Ca = Unset /\ Cb = Unset /\ Da = Unset /\ Db = Unset
    /\ Fa = Unset /\ Fb = Unset
    /\ diis_r_a = Unset /\ diis_r_b = Unset
    /\ F_list_a = <<>> /\ F_list_b = <<>> /\ R_list_a = <<>> /\ R_list_b = <<>>
    /\ SCF_E = 0 /\ E_old = 0 /\ dE = 0
    /\ scf_iter = 0
    /\ B_dims = <<>>
    /\ report = Unset

options == <<mol, numpy_memory, MAXITER, E_conv, D_conv>>
orbitals == <<Ca, Cb, Da, Db>>
lists == <<F_list_a, F_list_b, R_list_a, R_list_b>>
energies == <<SCF_E, E_old, dE>>

----------------------------------------------------------------------------
(* Setup cells *)

\* "Compute static 1e- and 2e- quantities", the memory check raising
StaticQuantitiesRaise ==
    /\ pc = "static"
    /\ MemoryExceeded(mol.nbf, numpy_memory)
    /\ allocated' = {"S"}
    /\ pc' = "ResourceLimitError"
    /\ UNCHANGED <<options, orbitals, Fa, Fb, diis_r_a, diis_r_b, lists, energies,
                   scf_iter, B_dims, report>>

\* "Compute static 1e- and 2e- quantities", the memory check passing
StaticQuantities ==
    /\ pc = "static"
    /\ ~MemoryExceeded(mol.nbf, numpy_memory)
    /\ allocated' = {"S", "I", "T", "V", "H", "A"}
    /\ pc' = "guess"
    /\ UNCHANGED <<options, orbitals, Fa, Fb, diis_r_a, diis_r_b, lists, energies,
                   scf_iter, B_dims, report>>

\* the two calls with an eigensolver that is free to return different eigenvectors
\* for the same matrix (a random start vector)
OrbitalGuesses_independent(Fx, Fy) ==
    diag_F(mol.nbf, ao_orthogonalizer(mol), Fx, mol.nalpha)
        \X diag_F(mol.nbf, ao_orthogonalizer(mol), Fy, mol.nbeta)

\* the two calls "diag_F(Fx, nalpha)", "diag_F(Fy, nbeta)": eigh is a function, so
\* equal arguments give equal eigenvectors
OrbitalGuesses(Fx, Fy) ==
    LET A == ao_orthogonalizer(mol)
    IN  {ab \in diag_F(mol.nbf, A, Fx, mol.nalpha) \X diag_F(mol.nbf, A, Fy, mol.nbeta) :
            Fx = Fy => ab[1].C = ab[2].C}

\* "Build alpha & beta CORE guess"
CoreGuess ==
    /\ pc = "guess"
    /\ \E ab \in OrbitalGuesses(Whole(mol.H), Whole(mol.H)) :
          /\ Ca' = ab[1].C /\ Da' = ab[1].D
          /\ Cb' = ab[2].C /\ Db' = ab[2].D
    /\ pc' = "preiter"
    /\ UNCHANGED <<options, allocated, Fa, Fb, diis_r_a, diis_r_b, lists, energies,
                   scf_iter, B_dims, report>>

\* "Pre-Iteration Setup" and the empty trial and residual lists
PreIteration ==
    /\ pc = "preiter"
    /\ SCF_E' = 0 /\ E_old' = 0
    /\ F_list_a' = <<>> /\ F_list_b' = <<>> /\ R_list_a' = <<>> /\ R_list_b' = <<>>
    /\ pc' = "for"
    /\ UNCHANGED <<options, allocated, orbitals, Fa, Fb, diis_r_a, diis_r_b, dE,
                   scf_iter, B_dims, report>>

----------------------------------------------------------------------------
(* The SCF loop *)

\* "for scf_iter in range(1, MAXITER+1)": the next pass
ForNext ==
    /\ pc = "for"
    /\ scf_iter < MAXITER
    /\ scf_iter' = scf_iter + 1
    /\ B_dims' = <<>>
    /\ pc' = "body"
    /\ UNCHANGED <<options, allocated, orbitals, Fa, Fb, diis_r_a, diis_r_b, lists,
                   energies, report>>

\* "for scf_iter in range(1, MAXITER+1)": the range is exhausted
ForExhausted ==
    /\ pc = "for"
    /\ ~(scf_iter < MAXITER)
    /\ pc' = "post"
    /\ UNCHANGED <<options, allocated, orbitals, Fa, Fb, diis_r_a, diis_r_b, lists,
                   energies, scf_iter, B_dims, report>>

\* Fock build, DIIS residuals, the appends, the UHF energy, dE
FockAndEnergy ==
    /\ pc = "body"
    /\ \E FA \in {Fock(mol, Da, Db)}, FB \in {Fock(mol, Db, Da)} :
       \E ra \in {Residual(mol, FA, Da)}, rb \in {Residual(mol, FB, Db)},
          E \in {Energy(mol, Da, Db, FA, FB)} :
           /\ Fa' = Whole(FA) /\ Fb' = Whole(FB)
           /\ diis_r_a' = ra /\ diis_r_b' = rb
           /\ F_list_a' = append(F_list_a, Whole(FA))
           /\ F_list_b' = append(F_list_b, Whole(FB))
           /\ R_list_a' = append(R_list_a, ra)
           /\ R_list_b' = append(R_list_b, rb)
           /\ SCF_E' = E
           /\ dE' = E - E_old
    /\ pc' = "check"
    /\ UNCHANGED <<options, allocated, orbitals, E_old, scf_iter, B_dims, report>>

\* the convergence check moved to the end of the loop body: E_old is overwritten
\* and the orbitals are updated before the loop is left
Break_after_update ==
    /\ pc = "check"
    /\ ConvergenceTest(mol.nbf, dE, diis_r_a, diis_r_b, E_conv, D_conv)
    /\ E_old' = SCF_E
    /\ \E ab \in OrbitalGuesses(Fa, Fb) :
          /\ Ca' = ab[1].C /\ Da' = ab[1].D
          /\ Cb' = ab[2].C /\ Db' = ab[2].D
    /\ pc' = "post"
    /\ UNCHANGED <<options, allocated, Fa, Fb, diis_r_a, diis_r_b, lists, SCF_E, dE,
                   scf_iter, B_dims, report>>

\* "Convergence Check": break
Break ==
    /\ pc = "check"
    /\ ConvergenceTest(mol.nbf, dE, diis_r_a, diis_r_b, E_conv, D_conv)
    /\ pc' = "post"
    /\ UNCHANGED <<options, allocated, orbitals, Fa, Fb, diis_r_a, diis_r_b, lists,
                   energies, scf_iter, B_dims, report>>

\* "Convergence Check": not converged, E_old = SCF_E
NotConverged ==
    /\ pc = "check"
    /\ ~ConvergenceTest(mol.nbf, dE, diis_r_a, diis_r_b, E_conv, D_conv)
    /\ E_old' = SCF_E
    /\ pc' = "diis"
    /\ UNCHANGED <<options, allocated, orbitals, Fa, Fb, diis_r_a, diis_r_b, lists,
                   SCF_E, dE, scf_iter, B_dims, report>>

\* "DIIS Extrapolation" in a pass that does not extrapolate
DIISSkip ==
    /\ pc = "diis"
    /\ ~UseDIIS(scf_iter)
    /\ pc' = "update"
    /\ UNCHANGED <<options, allocated, orbitals, Fa, Fb, diis_r_a, diis_r_b, lists,
                   energies, scf_iter, B_dims, report>>

\* the extrapolation written into the arrays Fa, Fb in place ("Fa[:] = ..."), which
\* are the arrays the newest entries of the histories refer to
DIISExtrapolation_in_place ==
    /\ pc = "diis"
    /\ UseDIIS(scf_iter)
    /\ \E xa \in {diis_xtrap(F_list_a, R_list_a)}, xb \in {diis_xtrap(F_list_b, R_list_b)} :
           /\ ~xa.raised /\ ~xb.raised
           /\ Fa' = xa.F_DIIS
           /\ Fb' = xb.F_DIIS
           /\ F_list_a' = [F_list_a EXCEPT ![Len(F_list_a)] = xa.F_DIIS]
           /\ F_list_b' = [F_list_b EXCEPT ![Len(F_list_b)] = xb.F_DIIS]
           /\ B_dims' = <<xa.B_dim, xb.B_dim>>
    /\ pc' = "update"
    /\ UNCHANGED <<options, allocated, orbitals, diis_r_a, diis_r_b, R_list_a, R_list_b,
                   energies, scf_iter, report>>

\* "DIIS Extrapolation": both solves succeed
DIISExtrapolation ==
    /\ pc = "diis"
    /\ UseDIIS(scf_iter)
    /\ \E xa \in {diis_xtrap(F_list_a, R_list_a)}, xb \in {diis_xtrap(F_list_b, R_list_b)} :
           /\ ~xa.raised /\ ~xb.raised
           /\ Fa' = xa.F_DIIS
           /\ Fb' = xb.F_DIIS
           /\ B_dims' = <<xa.B_dim, xb.B_dim>>
    /\ pc' = "update"
    /\ UNCHANGED <<options, allocated, orbitals, diis_r_a, diis_r_b, lists, energies,
                   scf_iter, report>>

\* "DIIS Extrapolation": np.linalg.solve raises LinAlgError, which nothing catches
DIISRaise ==
    /\ pc = "diis"
    /\ UseDIIS(scf_iter)
    /\ \E xa \in {diis_xtrap(F_list_a, R_list_a)}, xb \in {diis_xtrap(F_list_b, R_list_b)} :
           \/ /\ xa.raised
              /\ B_dims' = <<xa.B_dim>>
              /\ UNCHANGED <<Fa, Fb>>
           \/ /\ ~xa.raised /\ xb.raised
              /\ Fa' = xa.F_DIIS
              /\ B_dims' = <<xa.B_dim, xb.B_dim>>
              /\ UNCHANGED Fb
    /\ pc' = "LinAlgError"
    /\ UNCHANGED <<options, allocated, orbitals, diis_r_a, diis_r_b, lists, energies,
                   scf_iter, report>>

\* "Compute new orbital guess"
OrbitalUpdate ==
    /\ pc = "update"
    /\ \E ab \in OrbitalGuesses(Fa, Fb) :
          /\ Ca' = ab[1].C /\ Da' = ab[1].D
          /\ Cb' = ab[2].C /\ Db' = ab[2].D
    /\ pc' = "maxcheck"
    /\ UNCHANGED <<options, allocated, Fa, Fb, diis_r_a, diis_r_b, lists, energies,
                   scf_iter, B_dims, report>>

\* "MAXITER exceeded?": raise
MaxIterRaise ==
    /\ pc = "maxcheck"
    /\ LimitReached(scf_iter, MAXITER)
    /\ pc' = "IterationLimitExceeded"
    /\ UNCHANGED <<options, allocated, orbitals, Fa, Fb, diis_r_a, diis_r_b, lists,
                   energies, scf_iter, B_dims, report>>

\* "MAXITER exceeded?": no, back to the loop head
LoopBack ==
    /\ pc = "maxcheck"
    /\ ~LimitReached(scf_iter, MAXITER)
    /\ pc' = "for"
    /\ UNCHANGED <<options, allocated, orbitals, Fa, Fb, diis_r_a, diis_r_b, lists,
                   energies, scf_iter, B_dims, report>>

\* "Post iterations": print 'SCF converged.' and the final UHF energy
PostIterations ==
    /\ pc = "post"
    /\ report' = [converged |-> TRUE, energy |-> SCF_E]
    /\ pc' = "Converged"
    /\ UNCHANGED <<options, allocated, orbitals, Fa, Fb, diis_r_a, diis_r_b, lists,
                   energies, scf_iter, B_dims>>

Next ==
    \/ StaticQuantitiesRaise
    \/ StaticQuantities
    \/ CoreGuess
    \/ PreIteration
    \/ ForNext
    \/ ForExhausted
    \/ FockAndEnergy
    \/ Break
    \/ NotConverged
    \/ DIISSkip
    \/ DIISExtrapolation
    \/ DIISRaise
    \/ OrbitalUpdate
    \/ MaxIterRaise
    \/ LoopBack
    \/ PostIterations

Spec == Init /\ [][Next]_vars

----------------------------------------------------------------------------
(* diis_xtrap on its own: one call on a history handed to it *)

\* the 2x2 matrix ((a, b), (c, d))
Mat2(a, b, c, d) ==
    [ij \in Pairs(2) |-> IF ij = <<1, 1>> THEN a ELSE IF ij = <<1, 2>> THEN b
                         ELSE IF ij = <<2, 1>> THEN c ELSE d]

\* trial vectors: symmetric matrices
XtrapFocks == {Whole(Mat2(a, b, b, d)) : a \in {-1, 0, 2}, b \in {-1, 0, 2}, d \in {-1, 0, 2}}

\* residual vectors: any matrix, the zero matrix among them
XtrapResiduals == {Mat2(a, b, c, d) : a \in -1..1, b \in -1..1, c \in -1..1, d \in -1..1}

\* histories of length 1, and some of length 2
XtrapHistories ==
    {[F_list |-> <<F>>, DIIS_RESID |-> <<R>>] : F \in XtrapFocks, R \in XtrapResiduals}
    \cup {[F_list |-> <<Whole(Identity(2)), F>>, DIIS_RESID |-> <<Mat2(0, 1, -1, 0), R>>] :
              F \in XtrapFocks, R \in {Mat2(0, 0, 0, 0), Mat2(0, 1, -1, 0), Mat2(0, 2, -2, 0)}}

InitXtrap ==
    /\ \E h \in XtrapHistories :
          /\ F_list_a = h.F_list
          /\ R_list_a = h.DIIS_RESID
    /\ pc = "xtrap"
    /\ mol = Unset /\ numpy_memory = 0 /\ MAXITER = 0 /\ E_conv = 0 /\ D_conv = 0
    /\ allocated = {}
    /\ Ca = Unset /\ Cb = Unset /\ Da = Unset /\ Db = Unset
    /\ Fa = Unset /\ Fb = Unset
    /\ diis_r_a = Unset /\ diis_r_b = Unset
    /\ F_list_b = <<>> /\ R_list_b = <<>>
    /\ SCF_E = 0 /\ E_old = 0 /\ dE = 0
    /\ scf_iter = 0
    /\ B_dims = <<>>
    /\ report = Unset

\* the call returns F_DIIS
XtrapReturn ==
    /\ pc = "xtrap"
    /\ \E x \in {diis_xtrap(F_list_a, R_list_a)} :
           /\ ~x.raised
           /\ Fa' = x.F_DIIS
           /\ B_dims' = <<x.B_dim>>
    /\ pc' = "returned"
    /\ UNCHANGED <<options, allocated, orbitals, Fb, diis_r_a, diis_r_b, lists, energies,
                   scf_iter, report>>

\* np.linalg.solve raises inside the call
XtrapRaise ==
    /\ pc = "xtrap"
    /\ \E x \in {diis_xtrap(F_list_a, R_list_a)} :
           /\ x.raised
           /\ B_dims' = <<x.B_dim>>
    /\ pc' = "LinAlgError"
    /\ UNCHANGED <<options, allocated, orbitals, Fa, Fb, diis_r_a, diis_r_b, lists,
                   energies, scf_iter, report>>

NextXtrap ==
    \/ XtrapReturn
    \/ XtrapRaise

SpecXtrap == InitXtrap /\ [][NextXtrap]_vars

----------------------------------------------------------------------------
(* The states of the SCF driver *)

Ended == pc \in {"Converged", "IterationLimitExceeded", "LinAlgError", "ResourceLimitError"}

\* the driver state of section 4.6 that a position belongs to
DriverState(at) ==
    IF at \in {"static", "guess", "preiter"} THEN "Initializing"
    ELSE IF at \in {"for", "body", "check", "diis", "update", "maxcheck"} THEN "Iterating"
    ELSE IF at \in {"post", "Converged"} THEN "Converged"
    ELSE at

\* an occupation outside [0, nbf] or a tolerance that is not positive
ConfigurationInvalid ==
    \/ mol.nalpha \notin 0..mol.nbf
    \/ mol.nbeta \notin 0..mol.nbf
    \/ E_conv <= 0
    \/ D_conv <= 0

\* the convergence check of pass scf_iter has been made and has failed
TestFailed == pc \in {"diis", "update", "maxcheck", "LinAlgError", "IterationLimitExceeded"}

----------------------------------------------------------------------------
(* C1 *)

\* C1: the run leaves the loop as converged in pass scf_iter only if, in that pass,
\* |SCF_E - E_old| < E_conv and the average RMS of that pass's two residuals is
\* below D_conv
C1_ConvergedOnlyWhenBothHold ==
    (pc \in {"post", "Converged"} /\ scf_iter >= 1) =>
        /\ Abs(SCF_E - E_old) < 2 * E_conv
        /\ dRMS_below(mol.nbf, R_list_a[scf_iter], R_list_b[scf_iter], D_conv)
        /\ Len(R_list_a) = scf_iter /\ Len(R_list_b) = scf_iter

\* a run that converged in a later pass, on residuals that are not zero
C1_Witness ==
    /\ pc = "Converged" /\ scf_iter >= 2
    /\ Contract(R_list_a[scf_iter], R_list_a[scf_iter]) > 0

----------------------------------------------------------------------------
(* C2 *)

\* C2: a run with a valid configuration and MAXITER > 0 whose passes 1..MAXITER all failed the convergence
\* check ends in IterationLimitExceeded and reports neither 'SCF converged' nor a
\* final energy; a run whose check succeeded in a pass <= MAXITER ends as converged
\* and raises nothing
C2_ExhaustedRunEndsInIterationLimit ==
    /\ (~ConfigurationInvalid /\ MAXITER > 0 /\ scf_iter = MAXITER /\ TestFailed /\ Ended) =>
            (pc = "IterationLimitExceeded" /\ report = Unset)
    /\ (pc = "IterationLimitExceeded") => (scf_iter = MAXITER /\ report = Unset)
    /\ (pc = "Converged" /\ scf_iter >= 1) =>
            (scf_iter <= MAXITER /\ report = [converged |-> TRUE, energy |-> SCF_E])

----------------------------------------------------------------------------
(* C3 *)

\* C3: with a valid configuration and MAXITER > 0, once setup has passed, the driver makes at most MAXITER
\* passes and is in one of the states Initializing, Iterating, Converged,
\* IterationLimitExceeded, of which the last two are the only ones it ends in
C3_TwoTerminalStates ==
    (~ConfigurationInvalid /\ MAXITER > 0 /\ pc # "ResourceLimitError") =>
        /\ scf_iter <= MAXITER
        /\ DriverState(pc) \in {"Initializing", "Iterating", "Converged",
                                "IterationLimitExceeded"}
        /\ Ended => pc \in {"Converged", "IterationLimitExceeded"}

----------------------------------------------------------------------------
(* C4 *)

\* the B matrix of a spin is singular for the lists as they stand
SingularB ==
    \/ diis_xtrap(F_list_a, R_list_a).raised
    \/ diis_xtrap(F_list_b, R_list_b).raised

\* C4: when, with a valid configuration, B is singular in the extrapolation of a
\* pass, the run is not aborted:
\* the orbital update of that pass uses the un-extrapolated Fock matrices
C4_SingularBIsRecovered ==
    (~ConfigurationInvalid /\ UseDIIS(scf_iter) /\ pc \in {"update", "LinAlgError"}
        /\ SingularB) =>
        /\ pc = "update"
        /\ Fa = F_list_a[scf_iter]
        /\ Fb = F_list_b[scf_iter]

----------------------------------------------------------------------------
(* C5 *)

\* C5: diis_xtrap is invoked only on lists of at least two trial vectors; the
\* orbital update of pass 1 reads the Fock matrices that pass built, and the
\* orbital update of a pass >= 2 reads the extrapolated Fock matrices of both spins
C5_ExtrapolationFromSecondPass ==
    /\ (B_dims # <<>>) => (Len(F_list_a) >= 2 /\ Len(F_list_b) >= 2)
    /\ (pc = "update" /\ scf_iter = 1) =>
            /\ B_dims = <<>>
            /\ Fa = Whole(Fock(mol, Da, Db))
            /\ Fb = Whole(Fock(mol, Db, Da))
    /\ (pc = "update" /\ scf_iter >= 2) =>
            /\ Len(B_dims) = 2
            /\ Fa = diis_xtrap(F_list_a, R_list_a).F_DIIS
            /\ Fb = diis_xtrap(F_list_b, R_list_b).F_DIIS

\* an orbital update about to read a Fock matrix that extrapolation has changed
C5_Witness ==
    /\ pc = "update" /\ scf_iter >= 2
    /\ Fa # F_list_a[scf_iter]
    /\ Fb # F_list_b[scf_iter]

----------------------------------------------------------------------------
(* C6 *)

\* C6 as stated: the resource-limit error is raised before any tensor is built
C6_NoTensorBeforeTheError ==
    (pc = "ResourceLimitError") => allocated = {}

\* C6: with a budget smaller than the projected size of the ERI tensor, setup
\* raises before the ERI tensor, the core Hamiltonian and the orthogonalizer are
\* built; only the overlap matrix exists, no guess is formed, no pass runs
C6_ErrorBeforeTheEriTensor ==
    (numpy_memory < mol.nbf * mol.nbf * mol.nbf * mol.nbf) =>
        /\ pc \in {"static", "ResourceLimitError"}
        /\ allocated \subseteq {"S"}
        /\ Da = Unset /\ Db = Unset /\ Ca = Unset /\ Cb = Unset
        /\ scf_iter = 0 /\ F_list_a = <<>> /\ F_list_b = <<>>
        /\ report = Unset

\* the error raised for a tensor one double too large for nothing
C6_Witness ==
    /\ pc = "ResourceLimitError"
    /\ numpy_memory < mol.nbf * mol.nbf * mol.nbf * mol.nbf
    /\ allocated = {"S"}

----------------------------------------------------------------------------
(* C7 *)

\* C7: with an invalid configuration no pass of the SCF loop is executed
C7_InvalidConfigurationRunsNoPass ==
    ConfigurationInvalid => (scf_iter = 0 /\ pc \notin {"body", "check", "diis", "update"})

----------------------------------------------------------------------------
(* C8 *)

\* C8: diis_xtrap on a history of length 1 never raises, solves a 2x2 system whose
\* single extrapolation coefficient is 1, and returns the sole trial vector unchanged
C8_SingleVectorIsReturned ==
    (Len(F_list_a) = 1 /\ pc # "xtrap") =>
        /\ pc = "returned"
        /\ B_dims = <<2>>
        /\ Fa = F_list_a[1]
        /\ \E coeff \in {linalg_solve(2, PulayB(2, R_list_a), PulayRhs(2))} :
               ~coeff.raised /\ coeff.num[1] = coeff.den

\* a trial vector that is not zero returned for the residual R = 0
C8_Witness ==
    /\ pc = "returned" /\ Len(F_list_a) = 1
    /\ R_list_a[1] = Mat2(0, 0, 0, 0)
    /\ Fa # Whole(Mat2(0, 0, 0, 0))

----------------------------------------------------------------------------
(* C10 *)

\* C10: the four lists always have the same length; at the convergence check of
\* pass k each holds exactly k entries, the newest last; a B matrix built in pass k
\* has dimension k + 1
C10_ListsGrowByOnePerPass ==
    /\ Len(F_list_a) = Len(F_list_b)
    /\ Len(R_list_a) = Len(F_list_a)
    /\ Len(R_list_b) = Len(F_list_a)
    /\ (pc = "check") =>
            /\ Len(F_list_a) = scf_iter
            /\ F_list_a[scf_iter] = Fa /\ F_list_b[scf_iter] = Fb
            /\ R_list_a[scf_iter] = diis_r_a /\ R_list_b[scf_iter] = diis_r_b
    /\ \A i \in 1..Len(B_dims) : B_dims[i] = scf_iter + 1

\* the convergence check of the third pass, after a B matrix of dimension 3
C10_Witness ==
    /\ pc = "check" /\ scf_iter = 3 /\ Len(R_list_b) = 3

----------------------------------------------------------------------------
(* C11 *)

\* C11: a run that left the loop as converged in pass scf_iter made no extrapolation
\* and no orbital update in that pass and kept E_old: its Fock matrices, residuals
\* and energy are the ones computed from its final Ca, Cb, Da, Db, they are the
\* newest history entries, E_old is still the energy of the pass before, and the
\* energy reported is SCF_E
C11_ConvergedRunKeepsItsOrbitals ==
    (pc \in {"post", "Converged"} /\ scf_iter >= 1) =>
        /\ B_dims = <<>>
        /\ Da = Density(mol.nbf, Ca, mol.nalpha)
        /\ Db = Density(mol.nbf, Cb, mol.nbeta)
        /\ Fa = Whole(Fock(mol, Da, Db))
        /\ Fb = Whole(Fock(mol, Db, Da))
        /\ Fa = F_list_a[scf_iter] /\ Fb = F_list_b[scf_iter]
        /\ diis_r_a = Residual(mol, Fa.num, Da)
        /\ diis_r_b = Residual(mol, Fb.num, Db)
        /\ SCF_E = Energy(mol, Da, Db, Fa.num, Fb.num)
        /\ E_old = SCF_E - dE
        /\ (pc = "Converged") => report = [converged |-> TRUE, energy |-> SCF_E]

\* a run that converged in a later pass whose energy still moved
C11_Witness ==
    /\ pc = "Converged" /\ scf_iter >= 2
    /\ dE # 0
    /\ E_old # SCF_E

----------------------------------------------------------------------------
(* C12 *)

\* the entries of the history list are all still there, unchanged and in place,
\* in the list next
KeepsEntries(list, next) ==
    /\ Len(next) >= Len(list)
    /\ \A i \in 1..Len(list) : next[i] = list[i]

\* next is list with the one entry x appended
GainsEntry(list, next, x) == Len(next) = Len(list) + 1 /\ next[Len(next)] = x

\* C12: no step modifies, replaces, removes or reorders an entry of a history; the
\* histories change only in the Fock build of a pass, which appends to each the
\* Fock matrix built from the densities of that pass and the residual computed
\* from that matrix; extrapolation and orbital update leave the histories alone
C12_HistoryHoldsBuiltFocks ==
    [][/\ KeepsEntries(F_list_a, F_list_a') /\ KeepsEntries(F_list_b, F_list_b')
       /\ KeepsEntries(R_list_a, R_list_a') /\ KeepsEntries(R_list_b, R_list_b')
       /\ (lists' # lists) =>
             /\ pc = "body" /\ pc' = "check"
             /\ GainsEntry(F_list_a, F_list_a', Whole(Fock(mol, Da, Db)))
             /\ GainsEntry(F_list_b, F_list_b', Whole(Fock(mol, Db, Da)))
             /\ GainsEntry(R_list_a, R_list_a', Residual(mol, Fock(mol, Da, Db), Da))
             /\ GainsEntry(R_list_b, R_list_b', Residual(mol, Fock(mol, Db, Da), Db))
       /\ (pc \in {"diis", "update"}) => lists' = lists]_vars

\* after the orbital update of a pass whose extrapolation changed both Fock
\* matrices: the histories hold the matrices the pass built, not the extrapolated ones
C12_Witness ==
    /\ pc = "maxcheck" /\ scf_iter >= 2 /\ Len(B_dims) = 2
    /\ Len(F_list_a) = scf_iter
    /\ Fa # F_list_a[scf_iter] /\ Fb # F_list_b[scf_iter]

----------------------------------------------------------------------------
(* C13 *)

====
